---- MODULE Spec2Model ----
(***************************************************************************)
(* Model of datasets/esa-worldcover/esa-worldcover-example.ipynb: a linear *)
(* script that searches a STAC catalog, takes the "map" asset of the first *)
(* item, reads a window of band 1 of the raster, renders it, then reads    *)
(* the raster's colour table, normalises it and renders again with a       *)
(* discrete colour map and nearest-neighbour interpolation.                *)
(*                                                                         *)
(* The remote world the script talks to (catalog content, raster           *)
(* transform, band, colour table) and the display size are state fixed in  *)
(* Init; every network step may also fail.  Coordinates are integers in a  *)
(* fixed unit; pixel quantities are exact fractions <<n, d>> with d > 0.   *)
(*                                                                         *)
(* The library calls are modelled by what they do for the script:          *)
(*   - items[0] on an empty list raises IndexError, assets["map"] on a     *)
(*     missing key raises KeyError;                                        *)
(*   - a with statement closes its handle however the block is left;       *)
(*   - windows.from_bounds maps the corners through the inverse transform, *)
(*     takes the least row/column as offset and the spans as lengths, and  *)
(*     raises WindowError when the bounds are inverted;                    *)
(*   - src.read(1, window=w), not boundless, crops w to the raster and     *)
(*     returns an array of the cropped window's rounded lengths;           *)
(*   - imshow resamples the data to the display (nearest: the source value *)
(*     under each display pixel's centre), normalises by vmin/vmax and     *)
(*     looks the result up in the N-entry colour map.                      *)
(***************************************************************************)
EXTENDS Integers, Sequences, FiniteSets

VARIABLES
    stac_items,        \* remote: what the catalog search yields
    tif,               \* remote: the raster behind the asset URL
    screen,            \* display size <<rows, cols>> the image is resampled to
    bbox_of_interest,  \* <<west, south, east, north>>
    pc,                \* next statement of the script
    err,               \* the uncaught exception, "none" while running
    log,               \* statements executed so far, in order
    items,             \* list(search.get_items())
    asset_href,        \* items[0].assets["map"].href
    open_handles,      \* raster handles currently open
    src,               \* handle bound by "with ... as src" (0: unbound)
    aoi_window,        \* windows.from_bounds(...)
    raster_data,       \* src.read(1, window=aoi_window)
    colormap_def,      \* src.colormap(1)
    colormap,          \* normalised colour table
    cmap,              \* ListedColormap(colormap)
    figures            \* images drawn by ax.imshow, in order

vars == <<stac_items, tif, screen, bbox_of_interest, pc, err, log, items,
          asset_href, open_handles, src, aoi_window, raster_data,
          colormap_def, colormap, cmap, figures>>

-----------------------------------------------------------------------------
(* Bounds of the model *)

MaxItems == 2
MaxCoord == 3
MaxPix == 2
RasterSize == 3
MaxN == 3
MaxDisp == 3

(* np.array(...) / 255 *)
ByteMax == 255

-----------------------------------------------------------------------------
(* Exact fractions *)

Frac(n, d) == IF d < 0 THEN <<-n, -d>> ELSE <<n, d>>
FLe(p, q) == p[1] * q[2] <= q[1] * p[2]
FLt(p, q) == p[1] * q[2] < q[1] * p[2]
FEq(p, q) == p[1] * q[2] = q[1] * p[2]
FSub(p, q) == <<p[1] * q[2] - q[1] * p[2], p[2] * q[2]>>
FAdd(p, q) == <<p[1] * q[2] + q[1] * p[2], p[2] * q[2]>>
FMin(p, q) == IF FLe(p, q) THEN p ELSE q
FMax(p, q) == IF FLe(p, q) THEN q ELSE p
FInt(k) == <<k, 1>>
FIsInt(p) == p[1] % p[2] = 0

Range(s) == {s[i] : i \in 1..Len(s)}
Last(s) == s[Len(s)]

-----------------------------------------------------------------------------
(* rasterio.windows: the window of a bounding box under a north-up affine  *)
(* transform [a, e, c, f] (x = c + a*col, y = f + e*row)                   *)

ColOf(t, x) == Frac(x - t.a_c, t.a)
RowOf(t, y) == Frac(y - t.a_f, t.e)

Window(col_off, row_off, width, height) ==
    [col_off |-> col_off, row_off |-> row_off, width |-> width, height |-> height]

\* from_bounds refuses bounds whose sign disagrees with the transform
BoundsConsistent(t, left, bottom, right, top) ==
    /\ ~ ((right - left) * t.a < 0)
    /\ ~ ((bottom - top) * t.e < 0)

\* a row offset taken from the bottom edge instead of the top edge
from_bounds_bottom(t, left, bottom, right, top) ==
    Window(ColOf(t, left), RowOf(t, bottom),
           FSub(ColOf(t, right), ColOf(t, left)),
           FSub(RowOf(t, bottom), RowOf(t, top)))

from_bounds(t, left, bottom, right, top) ==
    LET cols == {ColOf(t, left), ColOf(t, right)}
        rows == {RowOf(t, top), RowOf(t, bottom)}
        lo(S) == CHOOSE p \in S : \A q \in S : FLe(p, q)
        hi(S) == CHOOSE p \in S : \A q \in S : FLe(q, p)
    IN  Window(lo(cols), lo(rows),
               FMax(FSub(hi(cols), lo(cols)), FInt(0)),
               FMax(FSub(hi(rows), lo(rows)), FInt(0)))

\* Window.crop(height, width): the part of the window inside the raster
crop(w, height, width) ==
    LET row_start == FMin(FMax(w.row_off, FInt(0)), FInt(height))
        col_start == FMin(FMax(w.col_off, FInt(0)), FInt(width))
        row_stop == FMax(FInt(0), FMin(FAdd(w.row_off, w.height), FInt(height)))
        col_stop == FMax(FInt(0), FMin(FAdd(w.col_off, w.width), FInt(width)))
    IN  Window(col_start, row_start,
               FSub(col_stop, col_start), FSub(row_stop, row_start))

\* Window.round_lengths(): floor(x + 0.5)
RoundLength(p) == (2 * p[1] + p[2]) \div (2 * p[2])

\* pixel k (0-based) of n output pixels over [off, off + size): the source
\* pixel under its centre, kept inside 0..limit-1
SourceIndex(off, size, n, k, limit) ==
    LET num == off[1] * 2 * n * size[2] + (2 * k + 1) * size[1] * off[2]
        den == off[2] * 2 * n * size[2]
        i == num \div den
    IN  IF i < 0 THEN 0 ELSE IF i > limit - 1 THEN limit - 1 ELSE i

NLabels(t) == Len(t.palette)

\* band 1 of the raster: the class label of pixel (row, col), 0-based
Band(t, row, col) == (t.seed + row * t.width + col) % NLabels(t)

\* src.read(1, window=w) without boundless: the window is cropped to the
\* raster, its lengths rounded, and that many pixels are returned
read(t, w) ==
    LET cw == crop(w, t.height, t.width)
        h == RoundLength(cw.height)
        wd == RoundLength(cw.width)
    IN  [shape |-> <<h, wd>>,
         px |-> [r \in 1..h |-> [c \in 1..wd |->
                   Band(t, SourceIndex(cw.row_off, cw.height, h, r - 1, t.height),
                           SourceIndex(cw.col_off, cw.width, wd, c - 1, t.width))]]]

-----------------------------------------------------------------------------
(* The colour table *)

\* one channel divided by 256 instead of 255
NormalizeChannel256(c) == <<c, ByteMax + 1>>

\* np.array(entry) / 255, one channel
NormalizeChannel(c) == <<c, ByteMax>>

NormalizeEntry(e) == [k \in 1..Len(e) |-> NormalizeChannel(e[k])]

\* [np.array(colormap_def[i]) / 255 for i in range(len(colormap_def))]
NormalizeTable(def) ==
    [i \in 1..Cardinality(DOMAIN def) |-> NormalizeEntry(def[i - 1])]

\* a value bound hard-coded to the padded table length
VmaxPadded(def) == ByteMax

\* vmax=(len(colormap_def) - 1)
Vmax(def) == Cardinality(DOMAIN def) - 1

Vmin == 0

-----------------------------------------------------------------------------
(* matplotlib: imshow *)

\* Normalize(vmin, vmax)(v), then Colormap.__call__: scale to N entries,
\* truncate, X == 1 goes to the last entry, out-of-range values clipped
LutIndex(v, vmin, vmax, N) ==
    LET x == IF vmax = vmin THEN FInt(0) ELSE Frac(v - vmin, vmax - vmin)
        xa == (x[1] * N) \div x[2]
    IN  IF x[1] < 0 THEN 0
        ELSE IF xa >= N THEN N - 1
        ELSE xa

\* display pixel k (0-based) of n over a source axis of m pixels, with
\* linear interpolation: the mean of the two neighbouring source values
ResampleLinear(row, n, k) ==
    LET m == Len(row)
        i == ((2 * k + 1) * m) \div (2 * n)
        j == IF i + 1 < m THEN i + 1 ELSE i
    IN  (row[i + 1] + row[j + 1]) \div 2

\* interpolation="nearest": the value of the source pixel under the centre
\* of display pixel k (0-based) of n
Resample(row, n, k) ==
    LET m == Len(row)
        i == ((2 * k + 1) * m) \div (2 * n)
    IN  row[i + 1]

\* the image imshow draws: resample the data to the screen, then look each
\* value up in the colour map
imshow(data, lut, vmin, vmax, disp) ==
    IF data.shape[1] = 0 \/ data.shape[2] = 0 THEN <<>>
    ELSE [r \in 1..disp[1] |-> [c \in 1..disp[2] |->
            LET column == [k \in 1..data.shape[1] |->
                             Resample(data.px[k], disp[2], c - 1)]
                v == Resample(column, disp[1], r - 1)
            IN  lut[LutIndex(v, vmin, vmax, Len(lut)) + 1]]]

-----------------------------------------------------------------------------
(* The remote world and the initial state *)

AssetKeys == {{}, {"map"}}
Item(keys) == [assets |-> keys, href |-> "https://blob/Map.tif?sig"]
Catalogs == UNION {[1..n -> {Item(k) : k \in AssetKeys}] : n \in 0..MaxItems}

Coords == 0..MaxCoord
Boxes == Coords \X Coords \X Coords \X Coords
Transforms == [a : 1..MaxPix, e : {-k : k \in 1..MaxPix},
               a_c : {0, 2}, a_f : {MaxCoord, MaxCoord + 2}]

Black == <<0, 0, 0, 255>>
Colors == {Black, <<0, 100, 0, 255>>, <<255, 187, 34, 255>>}
Palettes == UNION {[1..n -> Colors] : n \in 2..MaxN}
Screens == (1..MaxDisp) \X (1..MaxDisp)

TheItem == <<Item({"map"})>>
TheBox == <<0, 1, 2, 3>>
TheTransform == [a |-> 1, e |-> -1, a_c |-> 0, a_f |-> MaxCoord]
ThePalette == <<<<0, 100, 0, 255>>, <<255, 187, 34, 255>>, Black>>
TheScreen == <<2, 2>>

Tif(t, palette, seed) ==
    [a |-> t.a, e |-> t.e, a_c |-> t.a_c, a_f |-> t.a_f,
     width |-> RasterSize, height |-> RasterSize,
     palette |-> palette, seed |-> seed]

\* the first image drawn before the first with block is left
ProgramOrderRenderInside ==
    <<"open_catalog", "search", "asset", "open1", "from_bounds", "read",
      "render1", "exit1", "open2", "colormap_def", "normalize", "exit2",
      "listed_cmap", "render2">>

ProgramOrder ==
    <<"open_catalog", "search", "asset", "open1", "from_bounds", "read",
      "exit1", "render1", "open2", "colormap_def", "normalize", "exit2",
      "listed_cmap", "render2">>

\* the catalog varies
InitCatalog ==
    /\ stac_items \in Catalogs
    /\ bbox_of_interest = TheBox
    /\ tif = Tif(TheTransform, ThePalette, 0)
    /\ screen = TheScreen

\* the bounding box and the raster's transform vary
InitWindow ==
    /\ stac_items = TheItem
    /\ bbox_of_interest \in Boxes
    /\ tif \in {Tif(t, ThePalette, 0) : t \in Transforms}
    /\ screen = TheScreen

\* the colour table, the labels and the display size vary
InitRender ==
    /\ stac_items = TheItem
    /\ bbox_of_interest = TheBox
    /\ tif \in {Tif(TheTransform, p, s) : p \in Palettes, s \in 0..(MaxN - 1)}
    /\ screen \in Screens

Init ==
    /\ InitCatalog \/ InitWindow \/ InitRender
    /\ pc = "open_catalog"
    /\ err = "none"
    /\ log = <<>>
    /\ items = <<>>
    /\ asset_href = ""
    /\ open_handles = {}
    /\ src = 0
    /\ aoi_window = <<>>
    /\ raster_data = <<>>
    /\ colormap_def = <<>>
    /\ colormap = <<>>
    /\ cmap = <<>>
    /\ figures = <<>>

-----------------------------------------------------------------------------
(* Control flow *)

StepAfter(step) ==
    LET i == CHOOSE k \in 1..Len(ProgramOrder) : ProgramOrder[k] = step
    IN  IF i = Len(ProgramOrder) THEN "done" ELSE ProgramOrder[i + 1]

\* an exception swallowed: the script carries on with the next statement
OnErrorContinue(step) == StepAfter(step)

\* nothing catches an exception: the script stops where it was raised
OnError(step) == "halted"

\* a handle that stays open when its block is left
WithExitLeak(handles, h) == handles

\* leaving "with rasterio.open(...) as src": src is closed
WithExit(handles, h) == handles \ {h}

Proceed(step) ==
    /\ pc' = StepAfter(step)
    /\ err' = "none"
    /\ log' = Append(log, step)

\* an exception raised in `step`; blocks being left close their handle
Raise(e, step) ==
    /\ pc' = OnError(step)
    /\ err' = e
    /\ log' = Append(log, step)
    /\ open_handles' = WithExit(open_handles, src)

remote == <<stac_items, tif, screen, bbox_of_interest>>

-----------------------------------------------------------------------------
(* The statements of the script *)

\* pystac_client.Client.open(...)
OpenCatalog ==
    /\ pc = "open_catalog"
    /\ \/ Proceed("open_catalog") /\ UNCHANGED open_handles
       \/ Raise("APIError", "open_catalog")
    /\ UNCHANGED <<remote, items, asset_href, src, aoi_window, raster_data,
                   colormap_def, colormap, cmap, figures>>

\* search = catalog.search(...); items = list(search.get_items())
Search ==
    /\ pc = "search"
    /\ \/ /\ Proceed("search")
          /\ items' = stac_items
          /\ UNCHANGED open_handles
       \/ /\ Raise("APIError", "search")
          /\ UNCHANGED items
    /\ UNCHANGED <<remote, asset_href, src, aoi_window, raster_data,
                   colormap_def, colormap, cmap, figures>>

\* what items[0].assets["map"].href raises, "none" when it yields the URL
AssetLookupMerged(its) ==
    IF Len(its) = 0 \/ "map" \notin its[1].assets THEN "LookupError" ELSE "none"

AssetLookup(its) ==
    IF Len(its) = 0 THEN "IndexError"
    ELSE IF "map" \notin its[1].assets THEN "KeyError"
    ELSE "none"

\* asset_href = items[0].assets["map"].href
AssetHref ==
    /\ pc = "asset"
    /\ IF AssetLookup(items) = "none"
       THEN /\ Proceed("asset")
            /\ asset_href' = items[1].href
            /\ UNCHANGED open_handles
       ELSE /\ Raise(AssetLookup(items), "asset")
            /\ UNCHANGED asset_href
    /\ UNCHANGED <<remote, items, src, aoi_window, raster_data,
                   colormap_def, colormap, cmap, figures>>

\* with rasterio.open(asset_href) as src:
Open(step, h) ==
    /\ pc = step
    /\ \/ /\ Proceed(step)
          /\ open_handles' = open_handles \cup {h}
          /\ src' = h
       \/ /\ Raise("RasterioIOError", step)
          /\ UNCHANGED src
    /\ UNCHANGED <<remote, items, asset_href, aoi_window, raster_data,
                   colormap_def, colormap, cmap, figures>>

Open1 == Open("open1", 1)
Open2 == Open("open2", 2)

\* aoi_window = windows.from_bounds(transform=src.transform, *bbox_of_interest)
FromBounds ==
    /\ pc = "from_bounds"
    /\ LET b == bbox_of_interest
       IN  IF BoundsConsistent(tif, b[1], b[2], b[3], b[4])
           THEN /\ Proceed("from_bounds")
                /\ aoi_window' = from_bounds(tif, b[1], b[2], b[3], b[4])
                /\ UNCHANGED open_handles
           ELSE /\ Raise("WindowError", "from_bounds")
                /\ UNCHANGED aoi_window
    /\ UNCHANGED <<remote, items, asset_href, src, raster_data,
                   colormap_def, colormap, cmap, figures>>

\* raster_data = src.read(1, window=aoi_window)
Read ==
    /\ pc = "read"
    /\ \/ /\ Proceed("read")
          /\ raster_data' = read(tif, aoi_window)
          /\ UNCHANGED open_handles
       \/ /\ Raise("RasterioIOError", "read")
          /\ UNCHANGED raster_data
    /\ UNCHANGED <<remote, items, asset_href, src, aoi_window,
                   colormap_def, colormap, cmap, figures>>

\* the end of a with block reached without an exception
Exit(step) ==
    /\ pc = step
    /\ Proceed(step)
    /\ open_handles' = WithExit(open_handles, src)
    /\ UNCHANGED <<remote, items, asset_href, src, aoi_window, raster_data,
                   colormap_def, colormap, cmap, figures>>

Exit1 == Exit("exit1")
Exit2 == Exit("exit2")

\* fig, ax = plt.subplots(...); ax.set_axis_off(); ax.imshow(raster_data)
Render1 ==
    /\ pc = "render1"
    /\ Proceed("render1")
    /\ figures' = Append(figures, [cmap |-> "default", shape |-> raster_data.shape])
    /\ UNCHANGED <<remote, items, asset_href, open_handles, src, aoi_window,
                   raster_data, colormap_def, colormap, cmap>>

\* colormap_def = src.colormap(1)
ReadColormap ==
    /\ pc = "colormap_def"
    /\ \/ /\ Proceed("colormap_def")
          /\ colormap_def' = [i \in 0..(NLabels(tif) - 1) |-> tif.palette[i + 1]]
          /\ UNCHANGED open_handles
       \/ /\ Raise("RasterioIOError", "colormap_def")
          /\ UNCHANGED colormap_def
    /\ UNCHANGED <<remote, items, asset_href, src, aoi_window, raster_data,
                   colormap, cmap, figures>>

\* colormap = [np.array(colormap_def[i]) / 255 for i in range(len(colormap_def))]
Normalize ==
    /\ pc = "normalize"
    /\ Proceed("normalize")
    /\ colormap' = NormalizeTable(colormap_def)
    /\ UNCHANGED <<remote, items, asset_href, open_handles, src, aoi_window,
                   raster_data, colormap_def, cmap, figures>>

\* cmap = ListedColormap(colormap)
ListedCmap ==
    /\ pc = "listed_cmap"
    /\ Proceed("listed_cmap")
    /\ cmap' = colormap
    /\ UNCHANGED <<remote, items, asset_href, open_handles, src, aoi_window,
                   raster_data, colormap_def, colormap, figures>>

\* ax.imshow(raster_data, cmap=cmap, vmin=0, vmax=(len(colormap_def) - 1),
\*           interpolation="nearest")
Render2 ==
    /\ pc = "render2"
    /\ Proceed("render2")
    /\ figures' = Append(figures,
          [cmap |-> "listed", shape |-> raster_data.shape,
           vmin |-> Vmin, vmax |-> Vmax(colormap_def),
           image |-> imshow(raster_data, cmap, Vmin, Vmax(colormap_def), screen)])
    /\ UNCHANGED <<remote, items, asset_href, open_handles, src, aoi_window,
                   raster_data, colormap_def, colormap, cmap>>

Next ==
    \/ OpenCatalog
    \/ Search
    \/ AssetHref
    \/ Open1
    \/ FromBounds
    \/ Read
    \/ Exit1
    \/ Render1
    \/ Open2
    \/ ReadColormap
    \/ Normalize
    \/ Exit2
    \/ ListedCmap
    \/ Render2

Spec == Init /\ [][Next]_vars

-----------------------------------------------------------------------------
(* Vocabulary of the properties *)

Done(step) == step \in Range(log)
FailedAt(step) == err # "none" /\ log # <<>> /\ Last(log) = step
Succeeded(step) == Done(step) /\ ~ FailedAt(step)

West == bbox_of_interest[1]
South == bbox_of_interest[2]
East == bbox_of_interest[3]
North == bbox_of_interest[4]

\* the box lies inside the raster's extent
InsideExtent ==
    /\ tif.a_c <= West /\ East <= tif.a_c + tif.a * tif.width
    /\ tif.a_f + tif.e * tif.height <= South /\ North <= tif.a_f

ProperBox == West < East /\ South < North

Abs(x) == IF x < 0 THEN -x ELSE x

\* source pixel k (0-based, of m) is one whose centre is nearest to the
\* centre of display pixel i (0-based, of n)
NearestTo(k, m, i, n) ==
    \A j \in 0..(m - 1) :
        Abs((2 * k + 1) * n - (2 * i + 1) * m) <= Abs((2 * j + 1) * n - (2 * i + 1) * m)

InBlock1 == {"from_bounds", "read", "exit1"}
InBlock2 == {"colormap_def", "normalize", "exit2"}

-----------------------------------------------------------------------------
(* C1: when the search returned zero items, the asset-URL step ends in an  *)
(* explicit "no data found" condition, not in an index-out-of-range error. *)
C1_NoDataFound ==
    (Done("asset") /\ Len(items) = 0) => (err = "NoDataFound" /\ err # "IndexError")

(* C2: a raster handle is open only inside its with block: after either    *)
(* block is left, by success or by failure, and when the script has ended  *)
(* or halted, no handle is open.                                           *)
C2_HandlesReleased ==
    /\ pc \notin (InBlock1 \cup InBlock2) => open_handles = {}
    /\ pc \in InBlock1 => open_handles = {1}
    /\ pc \in InBlock2 => open_handles = {2}

C2_Witness ==
    /\ pc = "halted" /\ FailedAt("read") /\ src = 1 /\ open_handles = {}

(* C3: a box partly or wholly outside the raster, or a window of zero or   *)
(* negative size, is signalled as an error by the windowed read, so only   *)
(* data of a proper box inside the extent reaches the rendering steps.     *)
C3_OutOfBoundsSignalled ==
    Done("render1") => (InsideExtent /\ ProperBox)

(* C4: in the second image every displayed pixel has exactly the colour of *)
(* the table entry of the label of a nearest source pixel, and so one of   *)
(* the N table entries, whatever the display size.                         *)
C4_NearestColours ==
    Done("render2") =>
        LET img == figures[2].image
            h == raster_data.shape[1]
            w == raster_data.shape[2]
        IN  \A r \in 1..Len(img) : \A c \in 1..Len(img[r]) :
              /\ img[r][c] \in Range(colormap)
              /\ \E kr \in 0..(h - 1), kc \in 0..(w - 1) :
                    /\ NearestTo(kr, h, r - 1, screen[1])
                    /\ NearestTo(kc, w, c - 1, screen[2])
                    /\ img[r][c] = colormap[raster_data.px[kr + 1][kc + 1] + 1]

C4_Witness ==
    /\ Done("render2")
    /\ screen # raster_data.shape
    /\ figures[2].image # <<>>
    /\ \E r1, r2 \in 1..screen[1], c1, c2 \in 1..screen[2] :
          figures[2].image[r1][c1] # figures[2].image[r2][c2]

(* C5: normalisation maps a table of N byte tuples to N tuples, entry i    *)
(* being entry i divided channel-wise by 255: channels lie in [0, 1],      *)
(* order is kept, larger raw values never give smaller normalised values,  *)
(* 0 goes to 0 and 255 to 1.                                               *)
C5_Normalized ==
    Done("normalize") =>
        LET N == Cardinality(DOMAIN colormap_def)
            Cells == {<<i, k>> : i \in 0..(N - 1), k \in 1..4}
            raw(x) == colormap_def[x[1]][x[2]]
            out(x) == colormap[x[1] + 1][x[2]]
        IN  /\ Len(colormap) = N
            /\ \A x \in Cells :
                  /\ Len(colormap[x[1] + 1]) = Len(colormap_def[x[1]])
                  /\ FEq(out(x), Frac(raw(x), 255))
                  /\ FLe(FInt(0), out(x)) /\ FLe(out(x), FInt(1))
                  /\ raw(x) = 0 => FEq(out(x), FInt(0))
                  /\ raw(x) = 255 => FEq(out(x), FInt(1))
            /\ \A x, y \in Cells : raw(x) <= raw(y) => FLe(out(x), out(y))

C5_Witness ==
    /\ Done("normalize")
    /\ \E i, j \in DOMAIN colormap_def : i < j /\ colormap_def[i] # colormap_def[j]
    /\ \E i \in DOMAIN colormap_def : colormap_def[i][1] = 255

(* C6: a failing step halts the script: the failure is recorded once, no   *)
(* step runs in a state that holds a failure, no step runs twice, and a    *)
(* failing step draws no image.                                            *)
C6_FailureHalts ==
    /\ [](err # "none" <=> pc = "halted")
    /\ [][ /\ err = "none"
           /\ ~ Done(pc)
           /\ log' = Append(log, pc)
           /\ err' # "none" => (pc' = "halted" /\ figures' = figures) ]_vars

C6_Witness ==
    /\ pc = "halted" /\ FailedAt("open2") /\ Len(figures) = 1 /\ ~ Done("render2")

(* C7: zero items and an item without a "map" asset end the asset-URL step *)
(* in two different errors, and the missing asset is a missing-key error.  *)
C7_DistinctOutcomes ==
    FailedAt("asset") =>
        /\ err = AssetLookup(items)
        /\ Len(items) = 0 =>
              \A c \in Catalogs :
                 (Len(c) > 0 /\ "map" \notin c[1].assets) => AssetLookup(c) \notin {err, "none"}
        /\ Len(items) > 0 =>
              /\ "map" \notin items[1].assets
              /\ err = "KeyError"
              /\ AssetLookup(<<>>) \notin {err, "none"}

C7_Witness ==
    /\ FailedAt("asset") /\ Len(items) > 0 /\ "map" \notin items[1].assets

(* C8: the accesses do not overlap: at most one raster handle is open,     *)
(* none while the catalog is searched or the asset URL extracted, the      *)
(* first is closed before the first image is drawn, and the second is      *)
(* opened only after that.                                                 *)
C8_NoOverlap ==
    /\ Cardinality(open_handles) <= 1
    /\ pc \in {"open_catalog", "search", "asset"} => open_handles = {}
    /\ open_handles # {} => (Succeeded("search") /\ Succeeded("asset"))
    /\ 1 \in open_handles => (~ Done("render1") /\ ~ Done("open2"))
    /\ Done("render1") => (Succeeded("read") /\ Done("exit1"))
    /\ 2 \in open_handles => (Done("exit1") /\ Done("render1"))

C8_Witness ==
    /\ open_handles = {2} /\ src = 2 /\ pc = "colormap_def" /\ Len(figures) = 1

(* C9, as stated: for a box inside the extent the window has column offset *)
(* (west - x0)/a, row offset (north - y0)/e, width (east - west)/a, height *)
(* (north - south)/|e|, and the array read has exactly that height and     *)
(* width as its shape (stated here for boxes of positive width and height: *)
(* the claim fails already on those).                                      *)
C9_WindowFields ==
    /\ FEq(aoi_window.col_off, Frac(West - tif.a_c, tif.a))
    /\ FEq(aoi_window.row_off, Frac(North - tif.a_f, tif.e))
    /\ FEq(aoi_window.width, Frac(East - West, tif.a))
    /\ FEq(aoi_window.height, Frac(North - South, Abs(tif.e)))

C9_ShapeIsWindow ==
    (Succeeded("read") /\ InsideExtent /\ ProperBox) =>
        /\ C9_WindowFields
        /\ FEq(FInt(raster_data.shape[1]), aoi_window.height)
        /\ FEq(FInt(raster_data.shape[2]), aoi_window.width)

(* C9, amended: the window is as stated, and the shape of the array read   *)
(* is the window's height and width rounded to whole pixels: within one    *)
(* pixel of them, and equal to them when they are whole numbers.           *)
C9_ShapeIsRoundedWindow ==
    (Succeeded("read") /\ InsideExtent) =>
        /\ C9_WindowFields
        /\ \A k \in 1..2 :
              LET n == FInt(raster_data.shape[k])
                  x == IF k = 1 THEN aoi_window.height ELSE aoi_window.width
              IN  /\ FLt(FSub(n, x), FInt(1)) /\ FLt(FSub(x, n), FInt(1))
                  /\ FIsInt(x) => FEq(n, x)

C9_Witness ==
    /\ Succeeded("read") /\ InsideExtent /\ ProperBox
    /\ West > tif.a_c /\ North < tif.a_f
    /\ raster_data.shape[1] >= 1 /\ raster_data.shape[2] >= 2

(* C10: with vmin = 0 and vmax = N - 1 for the N-entry colour map, every   *)
(* label v in 0..N-1 selects table entry v.                                *)
C10_LabelSelectsEntry ==
    Done("render2") =>
        LET f == figures[2]
            N == Len(cmap)
        IN  /\ N = Cardinality(DOMAIN colormap_def)
            /\ f.vmin = 0 /\ f.vmax = N - 1
            /\ \A v \in 0..(N - 1) : LutIndex(v, f.vmin, f.vmax, N) = v

C10_Witness ==
    /\ Done("render2")
    /\ Len(cmap) >= 3
    /\ \E r \in 1..raster_data.shape[1], c \in 1..raster_data.shape[2] :
          raster_data.px[r][c] = Len(cmap) - 1
    /\ \E r \in 1..raster_data.shape[1], c \in 1..raster_data.shape[2] :
          raster_data.px[r][c] = 1

====
